---- MODULE Spec2Model ----
(***************************************************************************)
(* Beam planning (src/main.py): scenario loading, construction of the      *)
(* visibility matrix, and the greedy first-fit beam scheduler with its     *)
(* constraint propagation.                                                 *)
(*                                                                         *)
(* Positions are integer vectors.  An angle is represented exactly by the  *)
(* pieces of its cosine (dot product and squared magnitudes); comparisons  *)
(* against the degree thresholds are done on signed squared cosines, which *)
(* is monotone with acos.  On every position set used below the integer    *)
(* comparison agrees with the floating point comparison of main.py.        *)
(***************************************************************************)
EXTENDS Integers, Sequences, FiniteSets, TLC

(***************************************************************************)
(* Program constants (main.py lines 14-38).                                *)
(***************************************************************************)
beams_per_satellite == 32
colors_per_satellite == 4
self_interference_max == 10
non_starlink_interference_max == 20
max_user_visible_angle == 45

Vector3(x, y, z) == [x |-> x, y |-> y, z |-> z]

origin == Vector3(0, 0, 0)

valid_color_ids == <<"A", "B", "C", "D">>

(***************************************************************************)
(* Bounds of the explored scenarios.                                       *)
(***************************************************************************)
MaxSmallUsers == 2
MaxExtraUsers == 2
MaxCluster == 4

(***************************************************************************)
(* Geometry engine.                                                        *)
(***************************************************************************)
Sgn(n) == IF n > 0 THEN 1 ELSE IF n < 0 THEN -1 ELSE 0

\* cos^2 of the thresholds the program compares against, times 10000.
CosSqScaled(deg) ==
  CASE deg = 10 -> 9698
    [] deg = 20 -> 8830
    [] deg = 135 -> 5000

\* Variant of calculate_angle_degrees: only the first direction vector is
\* caught when it has zero length.
calculate_angle_degrees_half_checked(vertex, point_a, point_b) ==
  LET va == Vector3(point_a.x - vertex.x, point_a.y - vertex.y, point_a.z - vertex.z)
      vb == Vector3(point_b.x - vertex.x, point_b.y - vertex.y, point_b.z - vertex.z)
      va_mag2 == (va.x * va.x) + (va.y * va.y) + (va.z * va.z)
      vb_mag2 == (vb.x * vb.x) + (vb.y * vb.y) + (vb.z * vb.z)
      dot_product == (va.x * vb.x) + (va.y * vb.y) + (va.z * vb.z)
  IN  [raised |-> (va_mag2 = 0),
       dot |-> dot_product, ma |-> va_mag2, mb |-> vb_mag2]

\* calculate_angle_degrees: raised is the ZeroDivisionError of the
\* normalisation when a direction vector has zero length.
calculate_angle_degrees(vertex, point_a, point_b) ==
  LET va == Vector3(point_a.x - vertex.x, point_a.y - vertex.y, point_a.z - vertex.z)
      vb == Vector3(point_b.x - vertex.x, point_b.y - vertex.y, point_b.z - vertex.z)
      va_mag2 == (va.x * va.x) + (va.y * va.y) + (va.z * va.z)
      vb_mag2 == (vb.x * vb.x) + (vb.y * vb.y) + (vb.z * vb.z)
      dot_product == (va.x * vb.x) + (va.y * vb.y) + (va.z * vb.z)
  IN  [raised |-> (va_mag2 = 0) \/ (vb_mag2 = 0),
       dot |-> dot_product, ma |-> va_mag2, mb |-> vb_mag2]

\* Signed squared cosine of the angle and of the threshold, on a common scale.
SignedCosSq(angle) == Sgn(angle.dot) * angle.dot * angle.dot * 10000

SignedCosSqOf(deg, angle) ==
  (IF deg > 90 THEN -1 ELSE 1) * CosSqScaled(deg) * angle.ma * angle.mb

\* angle < deg and angle <= deg (acos is decreasing).
AngleLess(angle, deg) == SignedCosSq(angle) > SignedCosSqOf(deg, angle)

AngleLessEq(angle, deg) == SignedCosSq(angle) >= SignedCosSqOf(deg, angle)

(***************************************************************************)
(* Scenario text.  A line is its sequence of whitespace separated tokens;  *)
(* a token is a number (what float() and int() accept) or a word.          *)
(***************************************************************************)
W(s) == [num |-> FALSE, w |-> s, n |-> 0]

N(i) == [num |-> TRUE, w |-> "", n |-> i]

\* The searched substrings that a word contains ("sat" in line, ...).
SubstringsOf(word) ==
  CASE word = "sat" -> {"sat"}
    [] word = "satellite" -> {"sat"}
    [] word = "user" -> {"user"}
    [] word = "interferer" -> {"interferer"}
    [] word = "#" -> {"#"}
    [] OTHER -> {}

LineContains(line, sub) ==
  \E i \in 1..Len(line) : ~line[i].num /\ sub \in SubstringsOf(line[i].w)

ObjLine(kw, id, p) == <<W(kw), N(id), N(p.x), N(p.y), N(p.z)>>

(***************************************************************************)
(* Python dict: key/value pairs in insertion order.                        *)
(***************************************************************************)
DictHas(d, k) == \E i \in 1..Len(d) : d[i].key = k

DictGet(d, k) == d[CHOOSE i \in 1..Len(d) : d[i].key = k].val

DictSet(d, k, val) ==
  IF DictHas(d, k)
  THEN [i \in 1..Len(d) |-> IF d[i].key = k THEN [key |-> k, val |-> val] ELSE d[i]]
  ELSE Append(d, [key |-> k, val |-> val])

(***************************************************************************)
(* Scenario files explored.                                                *)
(***************************************************************************)
MaxSats == 2
MaxInterferers == 1

SatGrid == {Vector3(0, 0, 28), Vector3(2, 0, 28), Vector3(4, 0, 24)}

UserGrid ==
  {Vector3(0, 0, 20), Vector3(1, 0, 20), Vector3(2, 0, 20), Vector3(8, 0, 20),
   Vector3(0, 0, 0)}

InterfererGrid == {Vector3(6, 0, 40), Vector3(1, 0, 20)}

\* User positions at least self_interference_max apart as seen from the
\* satellites that see them.
Spread ==
  <<Vector3(0, 0, 20), Vector3(2, 0, 20), Vector3(-2, 0, 20), Vector3(0, 2, 20),
    Vector3(0, -2, 20), Vector3(2, 2, 20), Vector3(-2, -2, 20), Vector3(4, 0, 20),
    Vector3(-4, 0, 20)>>

SeqsUpTo(S, n) == UNION {[1..k -> S] : k \in 0..n}

ObjLines(kw, ps) == [i \in 1..Len(ps) |-> ObjLine(kw, i, ps[i])]

FileOf(sats, users, interferers) ==
  ObjLines("sat", sats) \o ObjLines("user", users) \o ObjLines("interferer", interferers)

\* Satellites stand at distinct positions.
SatSeqs ==
  {s \in SeqsUpTo(SatGrid, MaxSats) :
     \A i, j \in 1..Len(s) : i # j => s[i] # s[j]}

SmallFiles ==
  {FileOf(s, u, i) : s \in SatSeqs,
                     u \in SeqsUpTo(UserGrid, MaxSmallUsers),
                     i \in SeqsUpTo(InterfererGrid, MaxInterferers)}

\* Many users: user n stands at Spread[((n-1) \div k) % Len(Spread) + 1].
ClusteredUsers(n, k) == [i \in 1..n |-> Spread[(((i - 1) \div k) % Len(Spread)) + 1]]

LargeFiles ==
  {FileOf(s, ClusteredUsers(n, k), i) :
     s \in {<<Vector3(0, 0, 28)>>, <<Vector3(0, 0, 28), Vector3(2, 0, 28)>>},
     n \in (beams_per_satellite - 1)..(beams_per_satellite + MaxExtraUsers),
     k \in 1..MaxCluster,
     i \in {<<>>, <<Vector3(12, 0, 40)>>}}

\* Lines that are comments, blank, malformed, or carry an unusable id.
ExtraLines ==
  {<<W("#"), W("sat"), N(1)>>,
   <<>>,
   <<W("sat"), N(2), N(0), N(0)>>,
   <<W("user"), N(2), N(0), N(0), N(20), N(1)>>,
   <<W("user"), N(2), N(0), W("north"), N(20)>>,
   <<W("interferer"), N(2), W("north"), N(0), N(40)>>,
   <<W("beacon"), N(2), N(0), N(0), N(20)>>,
   <<W("satellite"), N(2), N(0), N(0), N(28)>>,
   <<N(7), N(2), N(0), N(0), N(28)>>,
   <<W("user"), W("alice"), N(0), N(0), N(20)>>,
   <<W("sat"), W("alice"), N(2), N(0), N(28)>>,
   <<W("user"), N(3), N(0), N(0), N(20)>>}

InsertAt(seq, p, x) == SubSeq(seq, 1, p) \o <<x>> \o SubSeq(seq, p + 1, Len(seq))

EdgeBase ==
  FileOf(<<Vector3(0, 0, 28)>>, <<Vector3(2, 0, 20)>>, <<Vector3(12, 0, 40)>>)

EdgeFiles == {InsertAt(EdgeBase, p, x) : p \in 0..Len(EdgeBase), x \in ExtraLines}

Files == SmallFiles \cup LargeFiles \cup EdgeFiles

(***************************************************************************)
(* Scenario loading (read_object, read_scenario).                          *)
(***************************************************************************)
\* Variant of read_object: a coordinate that does not parse is skipped
\* instead of failing the load.
read_object_lenient(object_type, line, dest) ==
  LET parts == line IN
  IF (parts[1].num \/ parts[1].w # object_type) \/ Len(parts) # 5
  THEN [ok |-> FALSE, dest |-> dest]
  ELSE IF ~(parts[3].num /\ parts[4].num /\ parts[5].num)
       THEN [ok |-> TRUE, dest |-> dest]
       ELSE [ok |-> TRUE,
             dest |-> DictSet(dest, parts[2],
                              Vector3(parts[3].n, parts[4].n, parts[5].n))]

\* read_object: [ok, dest]; dest is updated only on success.
read_object(object_type, line, dest) ==
  LET parts == line IN
  IF (parts[1].num \/ parts[1].w # object_type) \/ Len(parts) # 5
  THEN [ok |-> FALSE, dest |-> dest]
  ELSE LET ident == parts[2] IN
       IF ~(parts[3].num /\ parts[4].num /\ parts[5].num)
       THEN [ok |-> FALSE, dest |-> dest]
       ELSE [ok |-> TRUE,
             dest |-> DictSet(dest, ident, Vector3(parts[3].n, parts[4].n, parts[5].n))]

\* One iteration of the loop of read_scenario over the lines of the file.
read_scenario_line(line, scn) ==
  IF LineContains(line, "#") THEN [ok |-> TRUE, scenario |-> scn]
  ELSE IF Len(line) = 0 THEN [ok |-> TRUE, scenario |-> scn]
  ELSE IF LineContains(line, "interferer")
    THEN LET r == read_object("interferer", line, scn.interferers)
         IN  [ok |-> r.ok, scenario |-> [scn EXCEPT !.interferers = r.dest]]
  ELSE IF LineContains(line, "sat")
    THEN LET r == read_object("sat", line, scn.sats)
         IN  [ok |-> r.ok, scenario |-> [scn EXCEPT !.sats = r.dest]]
  ELSE IF LineContains(line, "user")
    THEN LET r == read_object("user", line, scn.users)
         IN  [ok |-> r.ok, scenario |-> [scn EXCEPT !.users = r.dest]]
  ELSE [ok |-> FALSE, scenario |-> scn]

(***************************************************************************)
(* Visibility matrix.  Rows and columns are 0-based in the program; the    *)
(* sequences here are 1-based, so cell (user_i, col) is v[user_i+1][col+1].*)
(***************************************************************************)
Cell(m, user_i, col) == m[user_i + 1][col + 1]

\* Variant of InterfererScan: compares against self_interference_max.
RECURSIVE InterfererScan_wrong_threshold(_, _, _, _)
InterfererScan_wrong_threshold(interferers, user_pos, sat_pos, k) ==
  IF k > Len(interferers) THEN "clear"
  ELSE LET interferer_angle ==
             calculate_angle_degrees(user_pos, interferers[k].val, sat_pos)
       IN  IF interferer_angle.raised THEN "ZeroDivisionError"
           ELSE IF AngleLess(interferer_angle, self_interference_max)
                THEN "violation"
                ELSE InterfererScan_wrong_threshold(interferers, user_pos, sat_pos, k + 1)

\* The interferer loop (lines 319-325) from the k-th interferer on.
RECURSIVE InterfererScan(_, _, _, _)
InterfererScan(interferers, user_pos, sat_pos, k) ==
  IF k > Len(interferers) THEN "clear"
  ELSE LET interferer_angle ==
             calculate_angle_degrees(user_pos, interferers[k].val, sat_pos)
       IN  IF interferer_angle.raised THEN "ZeroDivisionError"
           ELSE IF AngleLess(interferer_angle, non_starlink_interference_max)
                THEN "violation"
                ELSE InterfererScan(interferers, user_pos, sat_pos, k + 1)

\* Variant of PairOutcome: a satellite exactly at the visibility limit is
\* accepted.
PairOutcome_limit_accepted(scn, user, sat) ==
  LET angle == calculate_angle_degrees(user.val, origin, sat.val)
      user_dim == Len(scn.users)
      sat_dim == Len(scn.sats) * colors_per_satellite
  IN  IF angle.raised THEN "ZeroDivisionError"
      ELSE IF AngleLess(angle, 180 - max_user_visible_angle) THEN "continue"
      ELSE LET scan == InterfererScan(scn.interferers, user.val, sat.val, 1) IN
           IF scan = "ZeroDivisionError" THEN "ZeroDivisionError"
           ELSE IF scan = "violation" THEN "continue"
           ELSE IF ~sat.key.num \/ ~user.key.num THEN "ValueError"
           ELSE IF (user.key.n - 1) \notin 0..(user_dim - 1)
                   \/ ((sat.key.n - 1) * colors_per_satellite) \notin 0..(sat_dim - 1)
                THEN "IndexError"
                ELSE "AVAILIBLE"

\* Body of the double loop (lines 310-332) for one (user, satellite) pair:
\* "continue", "AVAILIBLE" (the pair's cells are written) or the exception.
PairOutcome(scn, user, sat) ==
  LET angle == calculate_angle_degrees(user.val, origin, sat.val)
      user_dim == Len(scn.users)
      sat_dim == Len(scn.sats) * colors_per_satellite
  IN  IF angle.raised THEN "ZeroDivisionError"
      ELSE IF AngleLessEq(angle, 180 - max_user_visible_angle) THEN "continue"
      ELSE LET scan == InterfererScan(scn.interferers, user.val, sat.val, 1) IN
           IF scan = "ZeroDivisionError" THEN "ZeroDivisionError"
           ELSE IF scan = "violation" THEN "continue"
           ELSE IF ~sat.key.num \/ ~user.key.num THEN "ValueError"
           ELSE IF (user.key.n - 1) \notin 0..(user_dim - 1)
                   \/ ((sat.key.n - 1) * colors_per_satellite) \notin 0..(sat_dim - 1)
                THEN "IndexError"
                ELSE "AVAILIBLE"

\* Variant of generate_visibility_matrix: only the first color of an
\* accepted pair is written.
generate_visibility_matrix_first_color(scn) ==
  LET users == scn.users
      sats == scn.sats
      sat_dim == Len(sats) * colors_per_satellite
      user_dim == Len(users)
      out == [ui \in 1..Len(users) |->
                [si \in 1..Len(sats) |-> PairOutcome(scn, users[ui], sats[si])]]
      Raising == {p \in (1..Len(users)) \X (1..Len(sats)) :
                    out[p[1]][p[2]] \notin {"continue", "AVAILIBLE"}}
      first == CHOOSE p \in Raising :
                 \A q \in Raising : p[1] < q[1] \/ (p[1] = q[1] /\ p[2] <= q[2])
  IN  IF Raising # {}
      THEN [raised |-> out[first[1]][first[2]], v |-> <<>>]
      ELSE [raised |-> "None",
            v |-> [r \in 1..user_dim |-> [c \in 1..sat_dim |->
                     IF \E ui \in 1..Len(users), si \in 1..Len(sats) :
                          /\ out[ui][si] = "AVAILIBLE"
                          /\ users[ui].key.n - 1 = r - 1
                          /\ sats[si].key.n - 1 = (c - 1) \div colors_per_satellite
                          /\ (c - 1) % colors_per_satellite = 0
                     THEN "AVAILIBLE" ELSE "UNAVAILIBLE"]]]

\* generate_visibility_matrix: the matrix, or the first exception met in
\* iteration order (users outer, satellites inner, both in insertion order).
generate_visibility_matrix(scn) ==
  LET users == scn.users
      sats == scn.sats
      sat_dim == Len(sats) * colors_per_satellite
      user_dim == Len(users)
      out == [ui \in 1..Len(users) |->
                [si \in 1..Len(sats) |-> PairOutcome(scn, users[ui], sats[si])]]
      Raising == {p \in (1..Len(users)) \X (1..Len(sats)) :
                    out[p[1]][p[2]] \notin {"continue", "AVAILIBLE"}}
      first == CHOOSE p \in Raising :
                 \A q \in Raising : p[1] < q[1] \/ (p[1] = q[1] /\ p[2] <= q[2])
  IN  IF Raising # {}
      THEN [raised |-> out[first[1]][first[2]], v |-> <<>>]
      ELSE [raised |-> "None",
            v |-> [r \in 1..user_dim |-> [c \in 1..sat_dim |->
                     IF \E ui \in 1..Len(users), si \in 1..Len(sats) :
                          /\ out[ui][si] = "AVAILIBLE"
                          /\ users[ui].key.n - 1 = r - 1
                          /\ sats[si].key.n - 1 = (c - 1) \div colors_per_satellite
                     THEN "AVAILIBLE" ELSE "UNAVAILIBLE"]]]

(***************************************************************************)
(* Constraint propagation.                                                 *)
(***************************************************************************)
\* Variant of set_user_beam: the cell is closed instead of taking the state.
set_user_beam_closed(m, user_i, color_i, sat_id, state) ==
  [m EXCEPT ![user_i + 1][(sat_id - 1) * colors_per_satellite + color_i + 1] =
     "UNAVAILIBLE"]

\* set_user_beam: the matrix with the cell of (user, satellite, color) set.
set_user_beam(m, user_i, color_i, sat_id, state) ==
  [m EXCEPT ![user_i + 1][(sat_id - 1) * colors_per_satellite + color_i + 1] = state]

\* Variant of update_visibility: the saturation test is off by one.
update_visibility_no_cap(m, scn, target_user_i, sat_id, color_i, beam_i) ==
  LET v1 == set_user_beam(m, target_user_i, color_i, sat_id, "IN_USE")
      target_user_pos == DictGet(scn.users, N(target_user_i + 1))
      mark_sat_full == (beam_i = beams_per_satellite)
      sat_i == (sat_id - 1) * colors_per_satellite
      sat_i_color_i == sat_i + color_i
      num_users == Len(v1)
      Checked(user_i) == ~mark_sat_full /\ Cell(v1, user_i, sat_i_color_i) = "AVAILIBLE"
      AngleOf(user_i) ==
        calculate_angle_degrees(DictGet(scn.sats, N(sat_id)), target_user_pos,
                                DictGet(scn.users, N(user_i + 1)))
      NewRow(user_i) ==
        IF mark_sat_full
        THEN [c \in 1..Len(v1[user_i + 1]) |->
                IF (c - 1) \in sat_i..(sat_i + colors_per_satellite - 1)
                   /\ v1[user_i + 1][c] = "AVAILIBLE"
                THEN "UNAVAILIBLE" ELSE v1[user_i + 1][c]]
        ELSE IF Cell(v1, user_i, sat_i_color_i) # "AVAILIBLE" THEN v1[user_i + 1]
        ELSE IF AngleLess(AngleOf(user_i), self_interference_max)
             THEN [v1[user_i + 1] EXCEPT ![sat_i_color_i + 1] = "UNAVAILIBLE"]
             ELSE v1[user_i + 1]
  IN  IF \E user_i \in 0..(num_users - 1) : Checked(user_i) /\ AngleOf(user_i).raised
      THEN [raised |-> "ZeroDivisionError", v |-> v1]
      ELSE [raised |-> "None", v |-> [r \in 1..num_users |-> NewRow(r - 1)]]

\* Variant of update_visibility: the self-interference comparison is reversed.
update_visibility_reversed(m, scn, target_user_i, sat_id, color_i, beam_i) ==
  LET v1 == set_user_beam(m, target_user_i, color_i, sat_id, "IN_USE")
      target_user_pos == DictGet(scn.users, N(target_user_i + 1))
      mark_sat_full == (beam_i = beams_per_satellite - 1)
      sat_i == (sat_id - 1) * colors_per_satellite
      sat_i_color_i == sat_i + color_i
      num_users == Len(v1)
      Checked(user_i) == ~mark_sat_full /\ Cell(v1, user_i, sat_i_color_i) = "AVAILIBLE"
      AngleOf(user_i) ==
        calculate_angle_degrees(DictGet(scn.sats, N(sat_id)), target_user_pos,
                                DictGet(scn.users, N(user_i + 1)))
      NewRow(user_i) ==
        IF mark_sat_full
        THEN [c \in 1..Len(v1[user_i + 1]) |->
                IF (c - 1) \in sat_i..(sat_i + colors_per_satellite - 1)
                   /\ v1[user_i + 1][c] = "AVAILIBLE"
                THEN "UNAVAILIBLE" ELSE v1[user_i + 1][c]]
        ELSE IF Cell(v1, user_i, sat_i_color_i) # "AVAILIBLE" THEN v1[user_i + 1]
        ELSE IF ~AngleLess(AngleOf(user_i), self_interference_max)
             THEN [v1[user_i + 1] EXCEPT ![sat_i_color_i + 1] = "UNAVAILIBLE"]
             ELSE v1[user_i + 1]
  IN  IF \E user_i \in 0..(num_users - 1) : Checked(user_i) /\ AngleOf(user_i).raised
      THEN [raised |-> "ZeroDivisionError", v |-> v1]
      ELSE [raised |-> "None", v |-> [r \in 1..num_users |-> NewRow(r - 1)]]

\* Variant of update_visibility: every other cell of the column is rewritten from
\* the angle, whatever its state.
update_visibility_reset(m, scn, target_user_i, sat_id, color_i, beam_i) ==
  LET v1 == set_user_beam(m, target_user_i, color_i, sat_id, "IN_USE")
      target_user_pos == DictGet(scn.users, N(target_user_i + 1))
      mark_sat_full == (beam_i = beams_per_satellite - 1)
      sat_i == (sat_id - 1) * colors_per_satellite
      sat_i_color_i == sat_i + color_i
      num_users == Len(v1)
      Checked(user_i) == ~mark_sat_full /\ Cell(v1, user_i, sat_i_color_i) = "AVAILIBLE"
      AngleOf(user_i) ==
        calculate_angle_degrees(DictGet(scn.sats, N(sat_id)), target_user_pos,
                                DictGet(scn.users, N(user_i + 1)))
      NewRow(user_i) ==
        IF mark_sat_full
        THEN [c \in 1..Len(v1[user_i + 1]) |->
                IF (c - 1) \in sat_i..(sat_i + colors_per_satellite - 1)
                   /\ v1[user_i + 1][c] = "AVAILIBLE"
                THEN "UNAVAILIBLE" ELSE v1[user_i + 1][c]]
        ELSE IF user_i = target_user_i THEN v1[user_i + 1]
        ELSE IF AngleLess(AngleOf(user_i), self_interference_max)
             THEN [v1[user_i + 1] EXCEPT ![sat_i_color_i + 1] = "UNAVAILIBLE"]
             ELSE [v1[user_i + 1] EXCEPT ![sat_i_color_i + 1] = "AVAILIBLE"]
  IN  IF \E user_i \in 0..(num_users - 1) : Checked(user_i) /\ AngleOf(user_i).raised
      THEN [raised |-> "ZeroDivisionError", v |-> v1]
      ELSE [raised |-> "None", v |-> [r \in 1..num_users |-> NewRow(r - 1)]]

\* Variant of update_visibility: a full satellite is closed on the assigned
\* color only.
update_visibility_full_one_color(m, scn, target_user_i, sat_id, color_i, beam_i) ==
  LET v1 == set_user_beam(m, target_user_i, color_i, sat_id, "IN_USE")
      target_user_pos == DictGet(scn.users, N(target_user_i + 1))
      mark_sat_full == (beam_i = beams_per_satellite - 1)
      sat_i == (sat_id - 1) * colors_per_satellite
      sat_i_color_i == sat_i + color_i
      num_users == Len(v1)
      Checked(user_i) == ~mark_sat_full /\ Cell(v1, user_i, sat_i_color_i) = "AVAILIBLE"
      AngleOf(user_i) ==
        calculate_angle_degrees(DictGet(scn.sats, N(sat_id)), target_user_pos,
                                DictGet(scn.users, N(user_i + 1)))
      NewRow(user_i) ==
        IF mark_sat_full
        THEN [c \in 1..Len(v1[user_i + 1]) |->
                IF (c - 1) = sat_i_color_i
                   /\ v1[user_i + 1][c] = "AVAILIBLE"
                THEN "UNAVAILIBLE" ELSE v1[user_i + 1][c]]
        ELSE IF Cell(v1, user_i, sat_i_color_i) # "AVAILIBLE" THEN v1[user_i + 1]
        ELSE IF AngleLess(AngleOf(user_i), self_interference_max)
             THEN [v1[user_i + 1] EXCEPT ![sat_i_color_i + 1] = "UNAVAILIBLE"]
             ELSE v1[user_i + 1]
  IN  IF \E user_i \in 0..(num_users - 1) : Checked(user_i) /\ AngleOf(user_i).raised
      THEN [raised |-> "ZeroDivisionError", v |-> v1]
      ELSE [raised |-> "None", v |-> [r \in 1..num_users |-> NewRow(r - 1)]]

\* Variant of update_visibility: a user too close to the assigned one loses
\* every color of the satellite.
update_visibility_all_colors(m, scn, target_user_i, sat_id, color_i, beam_i) ==
  LET v1 == set_user_beam(m, target_user_i, color_i, sat_id, "IN_USE")
      target_user_pos == DictGet(scn.users, N(target_user_i + 1))
      mark_sat_full == (beam_i = beams_per_satellite - 1)
      sat_i == (sat_id - 1) * colors_per_satellite
      sat_i_color_i == sat_i + color_i
      num_users == Len(v1)
      Checked(user_i) == ~mark_sat_full /\ Cell(v1, user_i, sat_i_color_i) = "AVAILIBLE"
      AngleOf(user_i) ==
        calculate_angle_degrees(DictGet(scn.sats, N(sat_id)), target_user_pos,
                                DictGet(scn.users, N(user_i + 1)))
      NewRow(user_i) ==
        IF mark_sat_full
        THEN [c \in 1..Len(v1[user_i + 1]) |->
                IF (c - 1) \in sat_i..(sat_i + colors_per_satellite - 1)
                   /\ v1[user_i + 1][c] = "AVAILIBLE"
                THEN "UNAVAILIBLE" ELSE v1[user_i + 1][c]]
        ELSE IF Cell(v1, user_i, sat_i_color_i) # "AVAILIBLE" THEN v1[user_i + 1]
        ELSE IF AngleLess(AngleOf(user_i), self_interference_max)
             THEN [c \in 1..Len(v1[user_i + 1]) |->
                     IF (c - 1) \in sat_i..(sat_i + colors_per_satellite - 1)
                        /\ v1[user_i + 1][c] = "AVAILIBLE"
                     THEN "UNAVAILIBLE" ELSE v1[user_i + 1][c]]
             ELSE v1[user_i + 1]
  IN  IF \E user_i \in 0..(num_users - 1) : Checked(user_i) /\ AngleOf(user_i).raised
      THEN [raised |-> "ZeroDivisionError", v |-> v1]
      ELSE [raised |-> "None", v |-> [r \in 1..num_users |-> NewRow(r - 1)]]

\* update_visibility: the propagated matrix (raised: an exception of the
\* angle computation).
update_visibility(m, scn, target_user_i, sat_id, color_i, beam_i) ==
  LET v1 == set_user_beam(m, target_user_i, color_i, sat_id, "IN_USE")
      target_user_pos == DictGet(scn.users, N(target_user_i + 1))
      mark_sat_full == (beam_i = beams_per_satellite - 1)
      sat_i == (sat_id - 1) * colors_per_satellite
      sat_i_color_i == sat_i + color_i
      num_users == Len(v1)
      Checked(user_i) == ~mark_sat_full /\ Cell(v1, user_i, sat_i_color_i) = "AVAILIBLE"
      AngleOf(user_i) ==
        calculate_angle_degrees(DictGet(scn.sats, N(sat_id)), target_user_pos,
                                DictGet(scn.users, N(user_i + 1)))
      NewRow(user_i) ==
        IF mark_sat_full
        THEN [c \in 1..Len(v1[user_i + 1]) |->
                IF (c - 1) \in sat_i..(sat_i + colors_per_satellite - 1)
                   /\ v1[user_i + 1][c] = "AVAILIBLE"
                THEN "UNAVAILIBLE" ELSE v1[user_i + 1][c]]
        ELSE IF Cell(v1, user_i, sat_i_color_i) # "AVAILIBLE" THEN v1[user_i + 1]
        ELSE IF AngleLess(AngleOf(user_i), self_interference_max)
             THEN [v1[user_i + 1] EXCEPT ![sat_i_color_i + 1] = "UNAVAILIBLE"]
             ELSE v1[user_i + 1]
  IN  IF \E user_i \in 0..(num_users - 1) : Checked(user_i) /\ AngleOf(user_i).raised
      THEN [raised |-> "ZeroDivisionError", v |-> v1]
      ELSE [raised |-> "None", v |-> [r \in 1..num_users |-> NewRow(r - 1)]]

(***************************************************************************)
(* Report.                                                                 *)
(***************************************************************************)
\* Variant of format_solution: the beam number is the 0-based list index.
RECURSIVE format_solution_zero_based(_)
format_solution_zero_based(sol) ==
  IF Len(sol) = 0 THEN <<>>
  ELSE LET sat == sol[1].val IN
       [beam_i \in 1..Len(sat) |->
          [sat |-> sol[1].key, beam |-> beam_i - 1, user |-> sat[beam_i][1],
           color |-> valid_color_ids[sat[beam_i][2] + 1]]]
       \o format_solution_zero_based(Tail(sol))

\* format_solution: one line per record, satellites in insertion order.
RECURSIVE format_solution(_)
format_solution(sol) ==
  IF Len(sol) = 0 THEN <<>>
  ELSE LET sat == sol[1].val IN
       [beam_i \in 1..Len(sat) |->
          [sat |-> sol[1].key, beam |-> beam_i, user |-> sat[beam_i][1],
           color |-> valid_color_ids[sat[beam_i][2] + 1]]]
       \o format_solution(Tail(sol))

(***************************************************************************)
(* The program: main().                                                    *)
(***************************************************************************)
VARIABLES lines, line_i, scenario, pc, result, v, solution, user_i, output,
          angle_call

vars == <<lines, line_i, scenario, pc, result, v, solution, user_i, output, angle_call>>

\* A call of calculate_angle_degrees on its own: arguments and outcome.
NoCall ==
  [vertex |-> origin, point_a |-> origin, point_b |-> origin, called |-> FALSE,
   ret |-> [raised |-> FALSE, dot |-> 0, ma |-> 0, mb |-> 0]]

Init ==
  /\ lines \in Files
  /\ line_i = 1
  /\ scenario = [sats |-> <<>>, users |-> <<>>, interferers |-> <<>>]
  /\ pc = "read_scenario"
  /\ result = "running"
  /\ v = <<>>
  /\ solution = <<>>
  /\ user_i = 0
  /\ output = <<>>
  /\ angle_call = NoCall

\* read_scenario, one line (lines 118-144); a bad line makes main return -1.
ReadLine ==
  /\ pc = "read_scenario"
  /\ line_i <= Len(lines)
  /\ LET r == read_scenario_line(lines[line_i], scenario) IN
       IF r.ok
       THEN /\ scenario' = r.scenario
            /\ line_i' = line_i + 1
            /\ UNCHANGED <<pc, result>>
       ELSE /\ pc' = "exit"
            /\ result' = "return -1"
            /\ UNCHANGED <<scenario, line_i>>
  /\ UNCHANGED <<lines, v, solution, user_i, output,
               angle_call>>

\* read_scenario returns True (line 146); main goes on to line 231.
ReadDone ==
  /\ pc = "read_scenario"
  /\ line_i > Len(lines)
  /\ pc' = "generate_visibility_matrix"
  /\ UNCHANGED <<lines, line_i, scenario, result, v, solution, user_i, output,
               angle_call>>

\* v = generate_visibility_matrix(scenario) (line 235).
Generate ==
  /\ pc = "generate_visibility_matrix"
  /\ LET g == generate_visibility_matrix(scenario) IN
       IF g.raised = "None"
       THEN /\ v' = g.v
            /\ pc' = "solver_init"
            /\ UNCHANGED result
       ELSE /\ pc' = "exit"
            /\ result' = g.raised
            /\ UNCHANGED v
  /\ UNCHANGED <<lines, line_i, scenario, solution, user_i, output,
               angle_call>>

\* Lines 238-242: num_users = len(v); num_sat_beam = len(v[0]).
SolverInit ==
  /\ pc = "solver_init"
  /\ IF Len(v) = 0
     THEN /\ pc' = "exit"
          /\ result' = "IndexError"
     ELSE /\ pc' = "solver"
          /\ UNCHANGED result
  /\ UNCHANGED <<lines, line_i, scenario, v, solution, user_i, output,
               angle_call>>

\* Variant of SolverStep: after an assignment the scan of the same row goes on.
SolverStep_no_break ==
  /\ pc = "solver"
  /\ user_i < Len(v)
  /\ LET num_sat_beam == Len(v[1])
         Avail == {sat_beam_i \in 0..(num_sat_beam - 1) :
                     Cell(v, user_i, sat_beam_i) = "AVAILIBLE"}
     IN  IF Avail = {}
         THEN /\ user_i' = user_i + 1
              /\ UNCHANGED <<v, solution, pc, result>>
         ELSE LET sat_beam_i == CHOOSE c \in Avail : \A d \in Avail : c <= d
                  sat_id == (sat_beam_i \div colors_per_satellite) + 1
                  color_i == sat_beam_i % colors_per_satellite
                  new_beam == <<user_i + 1, color_i>>
                  old == IF DictHas(solution, sat_id) THEN DictGet(solution, sat_id)
                         ELSE <<>>
                  sol1 == DictSet(solution, sat_id, Append(old, new_beam))
                  current_beam_i == Len(DictGet(sol1, sat_id)) - 1
                  u == update_visibility(v, scenario, user_i, sat_id, color_i,
                                         current_beam_i)
              IN  /\ solution' = sol1
                  /\ v' = u.v
                  /\ IF u.raised = "None"
                     THEN UNCHANGED <<user_i, pc, result>>
                     ELSE /\ pc' = "exit"
                          /\ result' = u.raised
                          /\ UNCHANGED user_i
  /\ UNCHANGED <<lines, line_i, scenario, output,
               angle_call>>

\* Variant of SolverStep: the last Available column is taken.
SolverStep_last_fit ==
  /\ pc = "solver"
  /\ user_i < Len(v)
  /\ LET num_sat_beam == Len(v[1])
         Avail == {sat_beam_i \in 0..(num_sat_beam - 1) :
                     Cell(v, user_i, sat_beam_i) = "AVAILIBLE"}
     IN  IF Avail = {}
         THEN /\ user_i' = user_i + 1
              /\ UNCHANGED <<v, solution, pc, result>>
         ELSE LET sat_beam_i == CHOOSE c \in Avail : \A d \in Avail : c >= d
                  sat_id == (sat_beam_i \div colors_per_satellite) + 1
                  color_i == sat_beam_i % colors_per_satellite
                  new_beam == <<user_i + 1, color_i>>
                  old == IF DictHas(solution, sat_id) THEN DictGet(solution, sat_id)
                         ELSE <<>>
                  sol1 == DictSet(solution, sat_id, Append(old, new_beam))
                  current_beam_i == Len(DictGet(sol1, sat_id)) - 1
                  u == update_visibility(v, scenario, user_i, sat_id, color_i,
                                         current_beam_i)
              IN  /\ solution' = sol1
                  /\ v' = u.v
                  /\ IF u.raised = "None"
                     THEN /\ user_i' = user_i + 1
                          /\ UNCHANGED <<pc, result>>
                     ELSE /\ pc' = "exit"
                          /\ result' = u.raised
                          /\ UNCHANGED user_i
  /\ UNCHANGED <<lines, line_i, scenario, output,
               angle_call>>

\* Variant of SolverStep: the new record replaces the satellite's list.
SolverStep_overwrite ==
  /\ pc = "solver"
  /\ user_i < Len(v)
  /\ LET num_sat_beam == Len(v[1])
         Avail == {sat_beam_i \in 0..(num_sat_beam - 1) :
                     Cell(v, user_i, sat_beam_i) = "AVAILIBLE"}
     IN  IF Avail = {}
         THEN /\ user_i' = user_i + 1
              /\ UNCHANGED <<v, solution, pc, result>>
         ELSE LET sat_beam_i == CHOOSE c \in Avail : \A d \in Avail : c <= d
                  sat_id == (sat_beam_i \div colors_per_satellite) + 1
                  color_i == sat_beam_i % colors_per_satellite
                  new_beam == <<user_i + 1, color_i>>
                  old == IF DictHas(solution, sat_id) THEN DictGet(solution, sat_id)
                         ELSE <<>>
                  sol1 == DictSet(solution, sat_id, <<new_beam>>)
                  current_beam_i == Len(DictGet(sol1, sat_id)) - 1
                  u == update_visibility(v, scenario, user_i, sat_id, color_i,
                                         current_beam_i)
              IN  /\ solution' = sol1
                  /\ v' = u.v
                  /\ IF u.raised = "None"
                     THEN /\ user_i' = user_i + 1
                          /\ UNCHANGED <<pc, result>>
                     ELSE /\ pc' = "exit"
                          /\ result' = u.raised
                          /\ UNCHANGED user_i
  /\ UNCHANGED <<lines, line_i, scenario, output,
               angle_call>>

\* Variant of SolverStep: the scan of the row stops before its last column.
SolverStep_short_scan ==
  /\ pc = "solver"
  /\ user_i < Len(v)
  /\ LET num_sat_beam == Len(v[1])
         Avail == {sat_beam_i \in 0..(num_sat_beam - 2) :
                     Cell(v, user_i, sat_beam_i) = "AVAILIBLE"}
     IN  IF Avail = {}
         THEN /\ user_i' = user_i + 1
              /\ UNCHANGED <<v, solution, pc, result>>
         ELSE LET sat_beam_i == CHOOSE c \in Avail : \A d \in Avail : c <= d
                  sat_id == (sat_beam_i \div colors_per_satellite) + 1
                  color_i == sat_beam_i % colors_per_satellite
                  new_beam == <<user_i + 1, color_i>>
                  old == IF DictHas(solution, sat_id) THEN DictGet(solution, sat_id)
                         ELSE <<>>
                  sol1 == DictSet(solution, sat_id, Append(old, new_beam))
                  current_beam_i == Len(DictGet(sol1, sat_id)) - 1
                  u == update_visibility(v, scenario, user_i, sat_id, color_i,
                                         current_beam_i)
              IN  /\ solution' = sol1
                  /\ v' = u.v
                  /\ IF u.raised = "None"
                     THEN /\ user_i' = user_i + 1
                          /\ UNCHANGED <<pc, result>>
                     ELSE /\ pc' = "exit"
                          /\ result' = u.raised
                          /\ UNCHANGED user_i
  /\ UNCHANGED <<lines, line_i, scenario, output,
               angle_call>>

\* One iteration of the greedy loop (lines 243-260) for row user_i.
SolverStep ==
  /\ pc = "solver"
  /\ user_i < Len(v)
  /\ LET num_sat_beam == Len(v[1])
         Avail == {sat_beam_i \in 0..(num_sat_beam - 1) :
                     Cell(v, user_i, sat_beam_i) = "AVAILIBLE"}
     IN  IF Avail = {}
         THEN /\ user_i' = user_i + 1
              /\ UNCHANGED <<v, solution, pc, result>>
         ELSE LET sat_beam_i == CHOOSE c \in Avail : \A d \in Avail : c <= d
                  sat_id == (sat_beam_i \div colors_per_satellite) + 1
                  color_i == sat_beam_i % colors_per_satellite
                  new_beam == <<user_i + 1, color_i>>
                  old == IF DictHas(solution, sat_id) THEN DictGet(solution, sat_id)
                         ELSE <<>>
                  sol1 == DictSet(solution, sat_id, Append(old, new_beam))
                  current_beam_i == Len(DictGet(sol1, sat_id)) - 1
                  u == update_visibility(v, scenario, user_i, sat_id, color_i,
                                         current_beam_i)
              IN  /\ solution' = sol1
                  /\ v' = u.v
                  /\ IF u.raised = "None"
                     THEN /\ user_i' = user_i + 1
                          /\ UNCHANGED <<pc, result>>
                     ELSE /\ pc' = "exit"
                          /\ result' = u.raised
                          /\ UNCHANGED user_i
  /\ UNCHANGED <<lines, line_i, scenario, output,
               angle_call>>

\* Lines 261-262: format_solution(solution); return 0.
SolverDone ==
  /\ pc = "solver"
  /\ user_i = Len(v)
  /\ output' = format_solution(solution)
  /\ pc' = "exit"
  /\ result' = "return 0"
  /\ UNCHANGED <<lines, line_i, scenario, v, solution, user_i,
               angle_call>>

Next == ReadLine \/ ReadDone \/ Generate \/ SolverInit \/ SolverStep \/ SolverDone

Spec == Init /\ [][Next]_vars

(***************************************************************************)
(* The geometry engine on its own: calculate_angle_degrees applied to      *)
(* three points.                                                           *)
(***************************************************************************)
GeoPoints == UserGrid \cup SatGrid \cup InterfererGrid

GeoInit ==
  /\ lines = <<>>
  /\ line_i = 1
  /\ scenario = [sats |-> <<>>, users |-> <<>>, interferers |-> <<>>]
  /\ pc = "calculate_angle_degrees"
  /\ result = "running"
  /\ v = <<>>
  /\ solution = <<>>
  /\ user_i = 0
  /\ output = <<>>
  /\ \E vertex \in GeoPoints, point_a \in GeoPoints, point_b \in GeoPoints :
       angle_call = [NoCall EXCEPT !.vertex = vertex, !.point_a = point_a,
                                   !.point_b = point_b]

CallAngle ==
  /\ pc = "calculate_angle_degrees"
  /\ ~angle_call.called
  /\ angle_call' =
       [angle_call EXCEPT
          !.called = TRUE,
          !.ret = calculate_angle_degrees(angle_call.vertex, angle_call.point_a,
                                          angle_call.point_b)]
  /\ UNCHANGED <<lines, line_i, scenario, pc, result, v, solution, user_i, output>>

GeoNext == CallAngle

GeoSpec == GeoInit /\ [][GeoNext]_vars

(***************************************************************************)
(* Properties.                                                             *)
(***************************************************************************)
\* The assignment records; idx is the position in the satellite's list.
Records ==
  UNION {{[sat |-> solution[e].key, idx |-> i, user |-> solution[e].val[i][1],
           color |-> solution[e].val[i][2]] : i \in 1..Len(solution[e].val)} :
         e \in 1..Len(solution)}

UserPos(user_id) == DictGet(scenario.users, N(user_id))

SatPos(sat_id) == DictGet(scenario.sats, N(sat_id))

\* Angle at the satellite between two users.
AngleAtSat(sat_id, user_a, user_b) ==
  calculate_angle_degrees(SatPos(sat_id), UserPos(user_a), UserPos(user_b))

\* The matrix as construction leaves it for the loaded scenario.
Built == generate_visibility_matrix(scenario).v

Finished == pc = "exit" /\ result = "return 0"

\* C1: a satellite never has more than beams_per_satellite records, and
\* once it has that many its list of records no longer changes.
CapacityHolds ==
  \A e \in 1..Len(solution) : Len(solution[e].val) <= beams_per_satellite

SaturatedStays ==
  \A e \in 1..Len(solution) :
    Len(solution[e].val) = beams_per_satellite =>
      e <= Len(solution') /\ solution'[e] = solution[e]

C1_Capacity == [](CapacityHolds) /\ [][SaturatedStays]_vars

\* A satellite is saturated and a later user, whose cells on it were
\* Available at construction, has been processed.
C1_Witness ==
  /\ Finished
  /\ \E e \in 1..Len(solution), r \in 1..Len(v) :
       /\ Len(solution[e].val) = beams_per_satellite
       /\ r > solution[e].val[beams_per_satellite][1]
       /\ Built[r][(solution[e].key - 1) * colors_per_satellite + 1] = "AVAILIBLE"

\* C2: two records of the same satellite and color are aimed at users at
\* least self_interference_max apart, seen from the satellite.
C2_SelfInterference ==
  \A r1, r2 \in Records :
    (r1 # r2 /\ r1.sat = r2.sat /\ r1.color = r2.color) =>
      LET angle == AngleAtSat(r1.sat, r1.user, r2.user)
      IN  ~angle.raised /\ ~AngleLess(angle, self_interference_max)

\* Two users share a satellite and color, and a third one that is too
\* close to one of them was kept off that color.
C2_Witness ==
  /\ \E r1, r2 \in Records : r1 # r2 /\ r1.sat = r2.sat /\ r1.color = r2.color
  /\ \E r1, r3 \in Records :
       /\ r1.sat = r3.sat /\ r1.color # r3.color
       /\ AngleLess(AngleAtSat(r1.sat, r1.user, r3.user), self_interference_max)

\* C3: every record is for a (user, satellite) pair that is visible
\* (elevation above 180 - max_user_visible_angle) and that no interferer
\* disturbs (no interferer below non_starlink_interference_max).
PairVisible(user_id, sat_id) ==
  LET angle == calculate_angle_degrees(UserPos(user_id), origin, SatPos(sat_id))
  IN  ~angle.raised /\ ~AngleLessEq(angle, 180 - max_user_visible_angle)

PairInterfered(user_id, sat_id) ==
  \E k \in 1..Len(scenario.interferers) :
    LET angle == calculate_angle_degrees(UserPos(user_id), scenario.interferers[k].val,
                                         SatPos(sat_id))
    IN  angle.raised \/ AngleLess(angle, non_starlink_interference_max)

C3_VisibilityPrecondition ==
  \A r \in Records : PairVisible(r.user, r.sat) /\ ~PairInterfered(r.user, r.sat)

\* A run that assigned a beam while an interferer disqualified a visible
\* pair, which got no record.
C3_Witness ==
  /\ Finished
  /\ Records # {}
  /\ \E u \in 1..Len(scenario.users), s \in 1..Len(scenario.sats) :
       /\ PairVisible(u, s)
       /\ PairInterfered(u, s)
       /\ \A r \in Records : ~(r.user = u /\ r.sat = s)

\* C4: once the matrix is built, a step changes a cell only from Available
\* to InUse or from Available to Unavailable.
CellsMonotonic ==
  /\ Len(v') = Len(v)
  /\ \A r \in 1..Len(v) :
       /\ Len(v'[r]) = Len(v[r])
       /\ \A c \in 1..Len(v[r]) :
            /\ v[r][c] # "AVAILIBLE" => v'[r][c] = v[r][c]
            /\ v'[r][c] \in {"AVAILIBLE", "IN_USE", "UNAVAILIBLE"}

C4_Monotonic == [][(pc \in {"solver_init", "solver"}) => CellsMonotonic]_vars

\* Steps were taken after a cell became InUse and after propagation made a
\* cell Unavailable that construction had left Available.
C4_Witness ==
  /\ pc = "solver"
  /\ user_i >= 3
  /\ \E c \in 1..Len(v[1]) : v[1][c] = "IN_USE"
  /\ \E c \in 1..Len(v[2]) : v[2][c] = "UNAVAILIBLE" /\ Built[2][c] = "AVAILIBLE"

\* C5: a user has at most one record.
C5_OneBeamPerUser ==
  \A r1, r2 \in Records : r1.user = r2.user => r1 = r2

\* A user holds a beam while other cells of its row are still Available.
C5_Witness ==
  \E r \in Records :
    /\ user_i >= r.user
    /\ \E c \in 1..Len(v[r.user]) : v[r.user][c] = "AVAILIBLE"

\* C6: a scenario without users or without satellites ends without error
\* and without any record.
C6_EmptyScenario ==
  (/\ pc = "exit"
   /\ result # "return -1"
   /\ (Len(scenario.users) = 0 \/ Len(scenario.sats) = 0))
  => (result = "return 0" /\ Records = {} /\ output = <<>>)

\* C8: in the report, the beams of a satellite are numbered 1..n without
\* gap, in assignment order (users are assigned in ascending order), one
\* line per record, whatever the colors.
LinesOfSat(sat_id) == SelectSeq(output, LAMBDA o : o.sat = sat_id)

C8_BeamIndices ==
  Finished =>
    /\ Len(output) = Cardinality(Records)
    /\ \A e \in 1..Len(solution) :
         LET L == LinesOfSat(solution[e].key)
             recs == solution[e].val
         IN  /\ Len(L) = Len(recs)
             /\ \A k \in 1..Len(L) :
                  /\ L[k].beam = k
                  /\ L[k].user = recs[k][1]
                  /\ L[k].color = valid_color_ids[recs[k][2] + 1]
                  /\ \A j \in 1..(k - 1) : L[j].user < L[k].user

\* A finished run in which a satellite carries beams of several colors.
C8_Witness ==
  /\ Finished
  /\ \E o1, o2 \in {output[i] : i \in 1..Len(output)} :
       o1.sat = o2.sat /\ o1.beam = 1 /\ o2.beam = 2 /\ o1.color # o2.color

\* C9: a malformed line (wrong token count, unparseable coordinate or
\* unrecognized keyword, on a line that is neither comment nor blank) makes
\* the load fail: main returns -1, the matrix is never built and no record
\* or report is produced.
Malformed(line) ==
  /\ ~LineContains(line, "#")
  /\ Len(line) # 0
  /\ \/ Len(line) # 5
     \/ line[1].num
     \/ line[1].w \notin {"sat", "user", "interferer"}
     \/ \E i \in 3..5 : ~line[i].num

HasMalformedLine == \E i \in 1..Len(lines) : Malformed(lines[i])

C9_MalformedAborts ==
  HasMalformedLine =>
    /\ v = <<>> /\ solution = <<>> /\ output = <<>>
    /\ \/ pc = "read_scenario" /\ \E i \in line_i..Len(lines) : Malformed(lines[i])
       \/ pc = "exit" /\ result = "return -1"

\* The load failed on a malformed line after well-formed lines were read.
C9_Witness ==
  /\ HasMalformedLine
  /\ pc = "exit"
  /\ Len(scenario.sats) > 0 /\ Len(scenario.users) > 0

\* C10 as stated: a (satellite, color) pair has at most one record.
C10_OneBeamPerSlot ==
  \A r1, r2 \in Records : (r1.sat = r2.sat /\ r1.color = r2.color) => r1 = r2

\* C10 as amended: around any assigned user, within less than
\* self_interference_max seen from the satellite, a (satellite, color) pair
\* has at most one record.
C10_OneBeamPerDirection ==
  \A r \in Records :
    Cardinality({q \in Records :
                   /\ q.sat = r.sat /\ q.color = r.color
                   /\ AngleLess(AngleAtSat(r.sat, r.user, q.user),
                                self_interference_max)}) = 1

\* A user was kept off a color of a satellite, whose cell construction had
\* left Available, because a user close to it holds that color.
C10_Witness ==
  \E r \in Records, u \in 1..Len(v) :
    LET col == (r.sat - 1) * colors_per_satellite + r.color + 1 IN
    /\ u # r.user
    /\ Built[u][col] = "AVAILIBLE"
    /\ v[u][col] = "UNAVAILIBLE"
    /\ AngleLess(AngleAtSat(r.sat, r.user, u), self_interference_max)
    /\ Cardinality({q \in Records : q.sat = r.sat /\ q.color = r.color}) >= 2

\* C11: calculate_angle_degrees raises (ZeroDivisionError) whenever the
\* vertex coincides with point_a or with point_b.
C11_ZeroLengthRaises ==
  (angle_call.called
   /\ (angle_call.vertex = angle_call.point_a \/ angle_call.vertex = angle_call.point_b))
  => angle_call.ret.raised

\* A call whose second direction vector alone has zero length has raised.
C11_Witness ==
  /\ angle_call.called
  /\ angle_call.vertex = angle_call.point_b
  /\ angle_call.vertex # angle_call.point_a
  /\ angle_call.ret.raised

\* C12: users are processed in ascending order; a step gives the user of
\* the row the lowest Available column of its row (satellite ascending, then
\* color ascending) as its one new record, and no record when the row has
\* no Available cell.  A single user that sees satellite 1, without
\* interferers, is reported as sat 1, beam 1, user 1, color A.
FirstFitStep ==
  (pc = "solver" /\ user_i < Len(v)) =>
    LET row == v[user_i + 1]
        AvailCols == {c \in 1..Len(row) : row[c] = "AVAILIBLE"}
    IN  /\ user_i' = user_i + 1
        /\ IF AvailCols = {}
           THEN Records' = Records
           ELSE \E c \in AvailCols, r \in Records' :
                  /\ \A d \in AvailCols : c <= d
                  /\ r \notin Records
                  /\ Records' = Records \cup {r}
                  /\ r.user = user_i + 1
                  /\ r.sat = ((c - 1) \div colors_per_satellite) + 1
                  /\ r.color = (c - 1) % colors_per_satellite

SingleUserExample ==
  (/\ Finished
   /\ Len(scenario.users) = 1 /\ DictHas(scenario.users, N(1))
   /\ Len(scenario.interferers) = 0
   /\ DictHas(scenario.sats, N(1)) /\ PairVisible(1, 1))
  => output = <<[sat |-> 1, beam |-> 1, user |-> 1, color |-> "A"]>>

C12_FirstFit == [](SingleUserExample) /\ [][FirstFitStep]_vars

\* A finished run in which a user got a column other than the first of a
\* satellite other than the first, and a user with a visible satellite got
\* none.
C12_Witness ==
  /\ Finished
  /\ \E r \in Records : r.color > 0 /\ r.sat > 1
  /\ \E u \in 1..Len(v) :
       /\ \A r \in Records : r.user # u
       /\ \E c \in 1..Len(v[u]) : Built[u][c] = "AVAILIBLE"

\* C13: in the step that gives a satellite its beams_per_satellite-th
\* record, every cell of that satellite that was Available, in every row and
\* color, becomes Unavailable (the assigned one InUse), whatever the angles;
\* no cell of the satellite is Available afterwards.
SaturationStep ==
  \A e \in 1..Len(solution') :
    (/\ Len(solution'[e].val) = beams_per_satellite
     /\ (e > Len(solution) \/ Len(solution[e].val) < beams_per_satellite))
    => LET sat_id == solution'[e].key
           new_beam == solution'[e].val[beams_per_satellite]
       IN  \A r \in 1..Len(v), color_i \in 0..(colors_per_satellite - 1) :
             LET c == (sat_id - 1) * colors_per_satellite + color_i + 1 IN
             /\ v'[r][c] # "AVAILIBLE"
             /\ v[r][c] # "AVAILIBLE" => v'[r][c] = v[r][c]
             /\ v[r][c] = "AVAILIBLE" =>
                  v'[r][c] = (IF r = new_beam[1] /\ color_i = new_beam[2]
                              THEN "IN_USE" ELSE "UNAVAILIBLE")

C13_Saturation == [][SaturationStep]_vars

\* A satellite is full, and a cell of it that construction left Available
\* is Unavailable although no user of that color is closer than
\* self_interference_max.
C13_Witness ==
  \E e \in 1..Len(solution), u \in 1..Len(v), color_i \in 0..(colors_per_satellite - 1) :
    LET sat_id == solution[e].key
        c == (sat_id - 1) * colors_per_satellite + color_i + 1
    IN  /\ Len(solution[e].val) = beams_per_satellite
        /\ Built[u][c] = "AVAILIBLE"
        /\ v[u][c] = "UNAVAILIBLE"
        /\ \A q \in Records :
             (q.sat = sat_id /\ q.color = color_i) =>
               ~AngleLess(AngleAtSat(sat_id, q.user, u), self_interference_max)

\* C14: when an assignment leaves the satellite below beams_per_satellite
\* records, an Available cell of another user in the assigned column becomes
\* Unavailable if and only if that user is strictly less than
\* self_interference_max from the assigned user, seen from the satellite;
\* otherwise it stays Available.
ThresholdStep ==
  \A r \in Records' :
    (r \notin Records /\ r.idx < beams_per_satellite) =>
      LET c == (r.sat - 1) * colors_per_satellite + r.color + 1 IN
      \A u \in 1..Len(v) :
        (u # r.user /\ v[u][c] = "AVAILIBLE") =>
          /\ v'[u][c] \in {"AVAILIBLE", "UNAVAILIBLE"}
          /\ v'[u][c] = "UNAVAILIBLE" <=>
               AngleLess(AngleAtSat(r.sat, r.user, u), self_interference_max)

C14_Threshold == [][ThresholdStep]_vars

\* After a non-saturating assignment, a later user closer than
\* self_interference_max lost the column and another one farther away kept
\* it.
C14_Witness ==
  \E r \in Records, u1, u2 \in 1..Len(v) :
    LET c == (r.sat - 1) * colors_per_satellite + r.color + 1 IN
    /\ r.idx < beams_per_satellite
    /\ u1 > r.user /\ u2 > r.user
    /\ Built[u1][c] = "AVAILIBLE" /\ v[u1][c] = "UNAVAILIBLE"
    /\ AngleLess(AngleAtSat(r.sat, r.user, u1), self_interference_max)
    /\ v[u2][c] = "AVAILIBLE"
    /\ ~AngleLess(AngleAtSat(r.sat, r.user, u2), self_interference_max)

\* C15: when generate_visibility_matrix has returned, the matrix has one
\* row per user and colors_per_satellite columns per satellite, and the
\* cells of a (user, satellite) pair are all Available if the elevation is
\* strictly above 180 - max_user_visible_angle and no interferer is below
\* non_starlink_interference_max, and all Unavailable otherwise; none is
\* InUse.
C15_Construction ==
  pc = "solver_init" =>
    /\ Len(v) = Len(scenario.users)
    /\ \A u \in 1..Len(v) :
         /\ Len(v[u]) = Len(scenario.sats) * colors_per_satellite
         /\ \A s \in 1..Len(scenario.sats), color_i \in 0..(colors_per_satellite - 1) :
              v[u][(s - 1) * colors_per_satellite + color_i + 1] =
                (IF PairVisible(u, s) /\ ~PairInterfered(u, s)
                 THEN "AVAILIBLE" ELSE "UNAVAILIBLE")

\* A built matrix with an accepted pair, a pair exactly at the visibility
\* limit and a visible pair that an interferer disqualifies.
C15_Witness ==
  /\ pc = "solver_init"
  /\ \E u \in 1..Len(scenario.users), s \in 1..Len(scenario.sats) :
       PairVisible(u, s) /\ ~PairInterfered(u, s)
  /\ \E u \in 1..Len(scenario.users), s \in 1..Len(scenario.sats) :
       PairVisible(u, s) /\ PairInterfered(u, s)
  /\ \E u \in 1..Len(scenario.users), s \in 1..Len(scenario.sats) :
       LET angle == calculate_angle_degrees(UserPos(u), origin, SatPos(s))
       IN  AngleLessEq(angle, 180 - max_user_visible_angle)
           /\ ~AngleLess(angle, 180 - max_user_visible_angle)

\* C16 as stated: before the first step of the scheduler every cell of the
\* built matrix is Available.
BeforeFirstStep == pc = "solver_init" \/ (pc = "solver" /\ user_i = 0)

C16_AllAvailable ==
  BeforeFirstStep =>
    \A u \in 1..Len(v) : \A c \in 1..Len(v[u]) : v[u][c] = "AVAILIBLE"

\* C16 as amended: before the first step of the scheduler every cell is
\* Available or Unavailable, none InUse, and every cell of a visible pair
\* that no interferer disqualifies is Available.
C16_AvailableOrUnavailable ==
  BeforeFirstStep =>
    \A u \in 1..Len(v) : \A c \in 1..Len(v[u]) :
      /\ v[u][c] \in {"AVAILIBLE", "UNAVAILIBLE"}
      /\ LET s == ((c - 1) \div colors_per_satellite) + 1 IN
         (PairVisible(u, s) /\ ~PairInterfered(u, s)) => v[u][c] = "AVAILIBLE"

\* The scheduler is about to start on a matrix that holds Available cells
\* and Unavailable cells.
C16_Witness ==
  /\ pc = "solver" /\ user_i = 0
  /\ \E u \in 1..Len(v) : \E c \in 1..Len(v[u]) : v[u][c] = "AVAILIBLE"
  /\ \E u \in 1..Len(v) : \E c \in 1..Len(v[u]) : v[u][c] = "UNAVAILIBLE"

\* C17: every step leaves each satellite's list of records unchanged or
\* appends exactly one record to the list of exactly one satellite; the
\* lists of the satellites already present keep their place and remain
\* prefixes of what they become.
ListOf(sol, sat_id) == IF DictHas(sol, sat_id) THEN DictGet(sol, sat_id) ELSE <<>>

IsPrefix(p, q) == Len(p) <= Len(q) /\ \A i \in 1..Len(p) : q[i] = p[i]

AppendOnlyStep ==
  LET ids == {solution[e].key : e \in 1..Len(solution)}
               \cup {solution'[e].key : e \in 1..Len(solution')}
      grown == {sat_id \in ids : ListOf(solution', sat_id) # ListOf(solution, sat_id)}
  IN  /\ Cardinality(grown) <= 1
      /\ \A sat_id \in grown :
           /\ Len(ListOf(solution', sat_id)) = Len(ListOf(solution, sat_id)) + 1
           /\ IsPrefix(ListOf(solution, sat_id), ListOf(solution', sat_id))
      /\ \A e \in 1..Len(solution) :
           /\ e <= Len(solution')
           /\ solution'[e].key = solution[e].key
           /\ IsPrefix(solution[e].val, solution'[e].val)

C17_AppendOnly == [][AppendOnlyStep]_vars

\* A finished run in which one satellite's list grew to several records and
\* another satellite's list was created after it.
C17_Witness ==
  /\ Finished
  /\ Len(solution) >= 2
  /\ Len(solution[1].val) >= 2
  /\ Len(solution[2].val) >= 2

\* C18: in a step that records user u on (satellite s, color c) the cell
\* (u, s, c) becomes InUse; any other cell that changes lies in column (s, c)
\* of another user when the record is not the satellite's
\* beams_per_satellite-th, and in the columns of satellite s when it is; the
\* cells of the other satellites and the scenario are left as they were.
ColumnOf(sat_id, color_i) == (sat_id - 1) * colors_per_satellite + color_i + 1

SatOfColumn(c) == ((c - 1) \div colors_per_satellite) + 1

FrameStep ==
  /\ pc = "solver" => scenario' = scenario
  /\ \A r \in Records' \ Records :
       /\ Len(v') = Len(v)
       /\ v'[r.user][ColumnOf(r.sat, r.color)] = "IN_USE"
       /\ \A u \in 1..Len(v) :
            /\ Len(v'[u]) = Len(v[u])
            /\ \A c \in 1..Len(v[u]) :
                 (v'[u][c] # v[u][c] /\ ~(u = r.user /\ c = ColumnOf(r.sat, r.color)))
                   => IF r.idx = beams_per_satellite
                      THEN SatOfColumn(c) = r.sat
                      ELSE c = ColumnOf(r.sat, r.color) /\ u # r.user

C18_Frame == [][FrameStep]_vars

\* A finished run with a saturated satellite whose closing changed cells of
\* colors other than the assigned one, and a record on another satellite
\* whose propagation closed the same column for another user.
C18_Witness ==
  /\ Finished
  /\ \E r \in Records :
       /\ r.idx = beams_per_satellite
       /\ \E u \in 1..Len(v) : \E c \in 1..Len(v[u]) :
            /\ SatOfColumn(c) = r.sat /\ c # ColumnOf(r.sat, r.color)
            /\ Built[u][c] = "AVAILIBLE" /\ v[u][c] = "UNAVAILIBLE"
  /\ \E r \in Records :
       /\ \A q \in Records : q.sat = r.sat => q.idx < beams_per_satellite
       /\ \E u \in 1..Len(v) :
            /\ u # r.user
            /\ Built[u][ColumnOf(r.sat, r.color)] = "AVAILIBLE"
            /\ v[u][ColumnOf(r.sat, r.color)] = "UNAVAILIBLE"

\* C19: between scheduler steps and at the end of the run, a cell is InUse
\* exactly when there is a record of its user on its satellite and color;
\* the InUse cells are as many as the records and no row holds two of them.
InUseCells ==
  UNION {{<<u, c>> : c \in {d \in 1..Len(v[u]) : v[u][d] = "IN_USE"}} :
         u \in 1..Len(v)}

C19_Consistent ==
  (pc = "solver" \/ Finished) =>
    /\ \A u \in 1..Len(v) : \A c \in 1..Len(v[u]) :
         v[u][c] = "IN_USE" <=>
           \E r \in Records :
             r.user = u /\ r.sat = SatOfColumn(c) /\ ColumnOf(r.sat, r.color) = c
    /\ Cardinality(InUseCells) = Cardinality(Records)
    /\ \A u \in 1..Len(v) : Cardinality({c \in 1..Len(v[u]) : v[u][c] = "IN_USE"}) <= 1

\* The scheduler is between two steps with records on two satellites and on
\* a color other than the first, and with rows still to process.
C19_Witness ==
  /\ pc = "solver"
  /\ user_i < Len(v)
  /\ \E r \in Records : r.sat > 1
  /\ \E r \in Records : r.color > 0
  /\ Cardinality(InUseCells) >= 3

\* C20: when the scheduler has processed all users, no user without a
\* record has an Available cell in its row.
Unserved == {u \in 1..Len(v) : \A r \in Records : r.user # u}

C20_GreedyComplete ==
  Finished => \A u \in Unserved : \A c \in 1..Len(v[u]) : v[u][c] # "AVAILIBLE"

\* A finished run in which a user got the last column of the matrix and
\* another user, left without a record, lost cells that construction had
\* made Available.
C20_Witness ==
  /\ Finished
  /\ \E r \in Records : ColumnOf(r.sat, r.color) = Len(v[r.user])
  /\ \E u \in Unserved : \E c \in 1..Len(v[u]) :
       Built[u][c] = "AVAILIBLE" /\ v[u][c] = "UNAVAILIBLE"

====
